---- MODULE Spec2Model ----
(***************************************************************************)
(* RateCounter of chain/network/src/peer/rate_counter.rs: a queue of       *)
(* (bytes, recorded) entries and a cached u64 total, with increment, the   *)
(* read get_bytes_per_min_and_count_per_min_and_truncate and the private   *)
(* maintenance pass truncate.                                              *)
(*                                                                         *)
(* Time is counted in whole seconds from an arbitrary base; SystemTime is  *)
(* a wall clock, so each call may observe any value of Times, later or     *)
(* earlier than the previous one.  u64 is scaled to U64_BITS bits.         *)
(*                                                                         *)
(* ParseAccountError and ParseErrorKind of core/account-id/src/errors.rs:  *)
(* an error value and the methods that inspect it (specification SpecErr). *)
(***************************************************************************)
EXTENDS Integers, Sequences, FiniteSets, TLC

\* const MINUTE: Duration = Duration::from_secs(60)
MINUTE == 60

\* Width of the scaled u64, and the number of increment calls of a run.
U64_BITS == 2
MaxIncrements == 3

U64_MOD == 2 ^ U64_BITS
U64_MAX == U64_MOD - 1

\* Values SystemTime::now() returns: two instants one second apart, and the
\* two instants one second apart that lie 60s and 61s after them.
Times == {0, 1, MINUTE + 1, MINUTE + 2}

\* Values of the bytes argument of increment.
BytesIn == {0, 1, U64_MAX}

VARIABLES
    entries,          \* RateCounter.entries, front first
    bytes_per_min,    \* RateCounter.bytes_per_min
    overflow_checks,  \* build profile: TRUE traps u64 overflow, FALSE wraps
    panicked,         \* a call has panicked (arithmetic overflow)
    history,          \* every entry increment has created, in call order
    evicted,          \* every entry truncate has popped, in pop order
    clock_forward,    \* no call has yet observed a clock value below the previous call's
    last,             \* the last call: its name, clock value, result and effect
    err,              \* a ParseAccountError(kind, account id), or NoError
    err_call,         \* the last method called on err
    err_ret           \* what that method returned

rcvars == <<entries, bytes_per_min, overflow_checks, panicked, history, evicted,
            clock_forward, last>>
errvars == <<err, err_call, err_ret>>
vars == <<rcvars, errvars>>

\* No ParseAccountError has been built.
NoError == [kind |-> "", account_id |-> ""]

\* struct Entry { bytes, recorded }; id tells apart entries of equal value.
Entry(bytes, recorded, id) == [bytes |-> bytes, recorded |-> recorded, id |-> id]

RECURSIVE SumBytes(_)
SumBytes(q) == IF q = <<>> THEN 0 ELSE Head(q).bytes + SumBytes(Tail(q))

\* self.entries.push_back(e)
push_front(q, e) == <<e>> \o q
push_back(q, e) == Append(q, e)

\* self.entries.front().unwrap()
back(q) == q[Len(q)]
front(q) == Head(q)

\* self.entries.pop_front().unwrap(): the entry popped and the queue left
pop_back(q) == [entry |-> q[Len(q)], rest |-> SubSeq(q, 1, Len(q) - 1)]
pop_front(q) == [entry |-> Head(q), rest |-> Tail(q)]

\* front().recorded < now - MINUTE
ExpiredOrAtEdge(e, now) == e.recorded <= now - MINUTE
Expired(e, now) == e.recorded < now - MINUTE

\* fn truncate: the while loop, on st = [entries, bytes_per_min, removed, panicked].
\* `-=` pops first and subtracts after; an underflow traps or wraps by build.
RECURSIVE truncate_keeping_total(_, _)
truncate_keeping_total(st, now) ==
    IF st.entries = <<>> \/ ~Expired(front(st.entries), now)
    THEN st
    ELSE LET p == pop_front(st.entries)
         IN  truncate_keeping_total([st EXCEPT !.entries = p.rest,
                                               !.removed = Append(@, p.entry)], now)
RECURSIVE truncate(_, _)
truncate(st, now) ==
    IF st.panicked \/ st.entries = <<>> \/ ~Expired(front(st.entries), now)
    THEN st
    ELSE LET p == pop_front(st.entries)
             popped == [st EXCEPT !.entries = p.rest,
                                  !.removed = Append(@, p.entry)]
         IN  IF st.bytes_per_min < p.entry.bytes /\ overflow_checks
             THEN [popped EXCEPT !.panicked = TRUE]
             ELSE truncate([popped EXCEPT !.bytes_per_min =
                               (st.bytes_per_min - p.entry.bytes) % U64_MOD], now)

\* fn bytes_per_min(&self) and fn count_per_min(&self)
get_bytes_per_min == bytes_per_min
count_off_by_one == Len(entries) + 1
get_count_per_min == Len(entries)

\* RateCounter::new(), in either build profile
Init ==
    /\ entries = <<>>
    /\ bytes_per_min = 0
    /\ overflow_checks \in BOOLEAN
    /\ panicked = FALSE
    /\ history = <<>>
    /\ evicted = <<>>
    /\ clock_forward = TRUE
    /\ last = [op |-> "new", now |-> 0, removed |-> <<>>, pass_in |-> 0,
               ret_bytes |-> 0, ret_count |-> 0]
    /\ err = NoError /\ err_call = "" /\ err_ret = ""

\* pub fn increment(&mut self, bytes: u64)
Increment ==
    /\ ~panicked
    /\ Len(history) < MaxIncrements
    /\ \E bytes \in BytesIn, now \in Times :
         LET e == Entry(bytes, now, Len(history) + 1)
             pushed == push_back(entries, e)
             sum == bytes_per_min + bytes
             st == truncate([entries |-> pushed, bytes_per_min |-> sum % U64_MOD,
                             removed |-> <<>>, panicked |-> FALSE], now)
         IN  /\ history' = Append(history, e)
             /\ clock_forward' = (clock_forward /\ now >= last.now)
             /\ IF sum > U64_MAX /\ overflow_checks
                THEN /\ entries' = pushed
                     /\ panicked' = TRUE
                     /\ last' = [op |-> "increment", now |-> now, removed |-> <<>>,
                                 pass_in |-> bytes_per_min,
                                 ret_bytes |-> 0, ret_count |-> 0]
                     /\ UNCHANGED <<bytes_per_min, evicted>>
                ELSE /\ entries' = st.entries
                     /\ bytes_per_min' = st.bytes_per_min
                     /\ panicked' = st.panicked
                     /\ evicted' = evicted \o st.removed
                     /\ last' = [op |-> "increment", now |-> now,
                                 removed |-> st.removed, pass_in |-> sum % U64_MOD,
                                 ret_bytes |-> 0, ret_count |-> 0]
    /\ UNCHANGED <<overflow_checks, errvars>>

\* pub fn get_bytes_per_min_and_count_per_min_and_truncate(&mut self), called
\* when the clock reads now: it returns the two getters and does nothing else.
ReadTruncating ==
    /\ ~panicked
    /\ \E now \in Times :
         LET st == truncate([entries |-> entries, bytes_per_min |-> bytes_per_min,
                             removed |-> <<>>, panicked |-> FALSE], now)
         IN  /\ entries' = st.entries
             /\ bytes_per_min' = st.bytes_per_min
             /\ panicked' = st.panicked
             /\ evicted' = evicted \o st.removed
             /\ clock_forward' = (clock_forward /\ now >= last.now)
             /\ last' = [op |-> "read", now |-> now, removed |-> st.removed,
                         pass_in |-> bytes_per_min,
                         ret_bytes |-> st.bytes_per_min,
                         ret_count |-> Len(st.entries)]
    /\ UNCHANGED <<overflow_checks, history, errvars>>

Read ==
    /\ ~panicked
    /\ \E now \in Times :
         /\ clock_forward' = (clock_forward /\ now >= last.now)
         /\ last' = [op |-> "read", now |-> now, removed |-> <<>>,
                     pass_in |-> bytes_per_min,
                     ret_bytes |-> get_bytes_per_min,
                     ret_count |-> get_count_per_min]
    /\ UNCHANGED <<entries, bytes_per_min, overflow_checks, panicked, history, evicted>>
    /\ UNCHANGED errvars

\* fn truncate(&mut self, now: SystemTime), called on its own as the unit test does
Truncate ==
    /\ ~panicked
    /\ \E now \in Times :
         LET st == truncate([entries |-> entries, bytes_per_min |-> bytes_per_min,
                             removed |-> <<>>, panicked |-> FALSE], now)
         IN  /\ entries' = st.entries
             /\ bytes_per_min' = st.bytes_per_min
             /\ panicked' = st.panicked
             /\ evicted' = evicted \o st.removed
             /\ clock_forward' = (clock_forward /\ now >= last.now)
             /\ last' = [op |-> "truncate", now |-> now, removed |-> st.removed,
                         pass_in |-> bytes_per_min,
                         ret_bytes |-> 0, ret_count |-> 0]
    /\ UNCHANGED <<overflow_checks, history, errvars>>

Next == Increment \/ Read \/ Truncate

Spec == Init /\ [][Next]_vars

----------------------------------------------------------------------------
\* core/account-id/src/errors.rs

\* enum ParseErrorKind
ParseErrorKinds == {"TooLong", "TooShort", "HasCapsChars", "HasConsecutiveSeparators",
                    "HasUnterminatedSeparators", "HasInvalidChars"}

\* Account ids an error may carry (the String of ParseAccountError).
AccountIds == {"", "Emily.near", "_angela_moss_"}

\* impl ParseErrorKind: matches!(self, ParseErrorKind::X)
is_too_long(k) == k = "TooLong"
is_too_short_pasted(k) == k = "TooLong"
is_too_short(k) == k = "TooShort"
has_caps_chars(k) == k = "HasCapsChars"
has_consecutive_separators(k) == k = "HasConsecutiveSeparators"
has_unterminated_separators(k) == k = "HasUnterminatedSeparators"
has_invalid_chars(k) == k = "HasInvalidChars"

\* impl fmt::Display for ParseErrorKind; the last arm is the wildcard `_`
fmt_kind(k) ==
    CASE k = "TooLong" -> "the account ID is too long"
      [] k = "TooShort" -> "the account ID is too short"
      [] k = "HasCapsChars" -> "the account ID has upper-case characters"
      [] k = "HasConsecutiveSeparators" ->
             "the account ID has separators immediately following each other"
      [] k = "HasUnterminatedSeparators" ->
             "the account ID begins or ends with a separator"
      [] OTHER -> "the account ID has an invalid format"

\* impl fmt::Display for ParseAccountError: "[{}]: {}" of self.1 and self.0,
\* as the pieces written
fmt_error(e) == <<"[", e.account_id, "]: ", fmt_kind(e.kind)>>

\* ParseAccountError(kind, account_id), built by the validation code
InitErr ==
    /\ entries = <<>> /\ bytes_per_min = 0 /\ overflow_checks = FALSE
    /\ panicked = FALSE /\ history = <<>> /\ evicted = <<>>
    /\ clock_forward = TRUE
    /\ last = [op |-> "new", now |-> 0, removed |-> <<>>, pass_in |-> 0,
               ret_bytes |-> 0, ret_count |-> 0]
    /\ err \in [kind : ParseErrorKinds, account_id : AccountIds]
    /\ err_call = "" /\ err_ret = ""

\* get_account_id takes self by value: no method is called after it.
Callable == err_call # "get_account_id"

\* A method of the error returns ret and leaves the error as it is.
Returns(name, ret) ==
    /\ err_call' = name
    /\ err_ret' = ret
    /\ UNCHANGED <<err, rcvars>>

\* pub fn kind(&self) -> &ParseErrorKind
Kind ==
    /\ Callable
    /\ Returns("kind", err.kind)

\* pub fn get_account_id(self) -> String
GetAccountId ==
    /\ Callable
    /\ Returns("get_account_id", err.account_id)

\* the six predicates of impl ParseErrorKind, called on self.kind()
IsTooLong ==
    /\ Callable
    /\ Returns("is_too_long", is_too_long(err.kind))

IsTooShort ==
    /\ Callable
    /\ Returns("is_too_short", is_too_short(err.kind))

HasCapsChars ==
    /\ Callable
    /\ Returns("has_caps_chars", has_caps_chars(err.kind))

HasConsecutiveSeparators ==
    /\ Callable
    /\ Returns("has_consecutive_separators", has_consecutive_separators(err.kind))

HasUnterminatedSeparators ==
    /\ Callable
    /\ Returns("has_unterminated_separators", has_unterminated_separators(err.kind))

HasInvalidChars ==
    /\ Callable
    /\ Returns("has_invalid_chars", has_invalid_chars(err.kind))

\* the two Display impls
FmtKind ==
    /\ Callable
    /\ Returns("fmt_kind", fmt_kind(err.kind))

FmtError ==
    /\ Callable
    /\ Returns("fmt_error", fmt_error(err))

NextErr ==
    \/ Kind \/ GetAccountId
    \/ IsTooLong \/ IsTooShort \/ HasCapsChars \/ HasConsecutiveSeparators
    \/ HasUnterminatedSeparators \/ HasInvalidChars
    \/ FmtKind \/ FmtError

SpecErr == InitErr /\ [][NextErr]_vars

----------------------------------------------------------------------------
TypeOK ==
    /\ bytes_per_min \in 0..U64_MAX
    /\ Len(entries) <= MaxIncrements
    /\ Len(history) <= MaxIncrements
    /\ panicked \in BOOLEAN

----------------------------------------------------------------------------
\* Vocabulary of the properties.

\* A maintenance pass ran to its end in the last call.
PassDone == last.op \in {"increment", "truncate"} /\ ~panicked

\* The clock values the increments observed never decreased.
IncrementClockMonotone ==
    \A i, j \in 1..Len(history) : i < j => history[i].recorded <= history[j].recorded

\* q is in ascending order of recorded time.
TimeOrdered(q) == \A i, j \in 1..Len(q) : i < j => q[i].recorded <= q[j].recorded

\* The increments recorded within the 60 seconds before T.
InWindow(h, T) == h.recorded >= T - MINUTE /\ h.recorded <= T
WindowIds(T) == {i \in 1..Len(history) : InWindow(history[i], T)}

RECURSIVE WindowBytesUpTo(_, _)
WindowBytesUpTo(n, T) ==
    IF n = 0 THEN 0
    ELSE WindowBytesUpTo(n - 1, T) + (IF n \in WindowIds(T) THEN history[n].bytes ELSE 0)
WindowBytes(T) == WindowBytesUpTo(Len(history), T)

\* The increment with this id is still in the queue.
Held(id) == \E j \in 1..Len(entries) : entries[j].id = id

\* Outside a panic the cached total is the sum of the queue modulo 2^U64_BITS.
TotalIsSumModulo == ~panicked => bytes_per_min = SumBytes(entries) % U64_MOD

----------------------------------------------------------------------------
\* C1: in every reachable state the cached total bytes_per_min equals the sum
\* of the bytes of the entries held in the queue.
C1_TotalIsSumOfEntries == bytes_per_min = SumBytes(entries)

\* C2: the bytes_per_min a read at time T returns is the sum of the bytes of
\* exactly the increments recorded within the 60 seconds before T (stated for
\* runs whose clock never ran backward and whose increments cannot overflow).
C2_ReadBytesIsWindowSum ==
    (last.op = "read" /\ clock_forward /\ SumBytes(history) <= U64_MAX)
        => last.ret_bytes = WindowBytes(last.now)

\* C3: the count_per_min a read at time T returns is the number of increments
\* recorded within the 60 seconds before T (stated for runs whose clock never
\* ran backward and whose increments cannot overflow).
C3_ReadCountIsWindowCount ==
    (last.op = "read" /\ clock_forward /\ SumBytes(history) <= U64_MAX)
        => last.ret_count = Cardinality(WindowIds(last.now))

\* C4: right after a read at time T the queue holds no entry recorded strictly
\* before T - 60s.
C4_ReadLeavesNoStaleEntry ==
    last.op = "read" =>
        \A i \in 1..Len(entries) : entries[i].recorded >= last.now - MINUTE

\* C5: an entry recorded at t is counted by a query at any time up to and
\* including t + 60s, and not counted by a query later than t + 60s (stated for
\* runs whose clock never ran backward).
C5_WindowBoundary ==
    (last.op = "read" /\ clock_forward) =>
        \A i \in 1..Len(history) :
            /\ last.now <= history[i].recorded + MINUTE => Held(i)
            /\ last.now > history[i].recorded + MINUTE => ~Held(i)

\* C6 as claimed: after a maintenance pass anchored at now every entry kept has
\* recorded >= now - 60s and every entry removed had recorded < now - 60s.
C6_PassKeepsOnlyFresh ==
    PassDone =>
        /\ \A i \in 1..Len(entries) : entries[i].recorded >= last.now - MINUTE
        /\ \A i \in 1..Len(last.removed) : last.removed[i].recorded < last.now - MINUTE

\* C6 amended: after a maintenance pass anchored at now every entry removed had
\* recorded < now - 60s and the entry left at the front has recorded >=
\* now - 60s; every entry kept has recorded >= now - 60s when the clock values
\* the increments observed never decreased.
C6_PassKeepsFreshFront ==
    PassDone =>
        /\ \A i \in 1..Len(last.removed) : last.removed[i].recorded < last.now - MINUTE
        /\ entries # <<>> => entries[1].recorded >= last.now - MINUTE
        /\ IncrementClockMonotone =>
               \A i \in 1..Len(entries) : entries[i].recorded >= last.now - MINUTE

\* A pass over a queue built by a forward clock removed some entries and kept others.
C6_Witness ==
    /\ PassDone /\ IncrementClockMonotone
    /\ last.removed # <<>> /\ entries # <<>>

\* C7 as claimed: in every reachable state the queue is in ascending order of
\* recorded time, whatever values the clock returned.
C7_QueueTimeOrdered == TimeOrdered(entries)

\* C7 amended: the queue is in ascending order of recorded time in every state
\* reached by increments whose clock values never decreased.
C7_QueueTimeOrderedUnderForwardClock == IncrementClockMonotone => TimeOrdered(entries)

\* Two entries of different recorded times are queued, the clock having gone forward.
C7_Witness ==
    /\ IncrementClockMonotone
    /\ Len(entries) >= 2 /\ entries[1].recorded < entries[Len(entries)].recorded

\* C8 as claimed: entries are evicted in time order; no entry with a later
\* recorded time is evicted before an entry with an earlier one.
C8_EvictedInTimeOrder == TimeOrdered(evicted)

\* C8 amended: entries are evicted in the order they were inserted, which is
\* time order when the clock values the increments observed never decreased.
C8_EvictedInInsertionOrder ==
    /\ \A i, j \in 1..Len(evicted) : i < j => evicted[i].id < evicted[j].id
    /\ IncrementClockMonotone => TimeOrdered(evicted)

\* Two entries of different recorded times have been evicted.
C8_Witness ==
    /\ IncrementClockMonotone
    /\ Len(evicted) >= 2 /\ evicted[1].recorded < evicted[2].recorded

\* C9: a call never removes an entry whose recorded time is at or after the
\* call's now - 60s (in the window or in the future of now), wherever the entry
\* stands in the queue.
C9_NoSpuriousEviction ==
    [][\A i \in 1..Len(entries) :
           entries[i].recorded >= last'.now - MINUTE
               => \E j \in 1..Len(entries') : entries'[j] = entries[i]]_vars

\* A pass kept, behind the front, an entry recorded after the pass's now.
C9_Witness ==
    /\ PassDone
    /\ \E i \in 2..Len(entries) : entries[i].recorded > last.now

\* C10: increment always completes normally and leaves the cached total equal to
\* the unwrapped sum of the bytes of the entries kept.
C10_IncrementNeverOverflows ==
    /\ ~panicked
    /\ last.op = "increment" => bytes_per_min = SumBytes(entries)

\* A pass that starts from the total `total` and subtracts the bytes of the
\* entries of `removed` in turn meets an entry larger than the running total.
RECURSIVE PassUnderflows(_, _)
PassUnderflows(total, removed) ==
    /\ removed # <<>>
    /\ \/ total < Head(removed).bytes
       \/ PassUnderflows((total - Head(removed).bytes) % U64_MOD, Tail(removed))

\* No entry is popped twice.
EvictedOnce == \A i, j \in 1..Len(evicted) : evicted[i].id = evicted[j].id => i = j

\* C11: whenever truncate pops the front entry, bytes_per_min is at least that
\* entry's bytes, and no entry's bytes are subtracted more than once.
C11_EvictionNeverUnderflows ==
    /\ ~PassUnderflows(last.pass_in, last.removed)
    /\ EvictedOnce

\* With overflow checks no pass underflows (the addition has trapped before).
NoUnderflowWithChecks == overflow_checks => ~PassUnderflows(last.pass_in, last.removed)

\* C12: a fresh counter has an empty queue and a zero total, and a read made
\* before any increment, at any clock value, returns (0, 0).
C12_FreshCounterReportsZero ==
    history = <<>> =>
        /\ entries = <<>> /\ bytes_per_min = 0 /\ ~panicked
        /\ last.op = "read" => last.ret_bytes = 0 /\ last.ret_count = 0

\* A read was made more than a minute after the base, no increment before it.
C12_Witness == history = <<>> /\ last.op = "read" /\ last.now > MINUTE

\* Every increment so far was recorded within the 60 seconds before the last call.
AllWithinMinuteOfLast ==
    \A i \in 1..Len(history) : history[i].recorded >= last.now - MINUTE

\* Every increment so far was recorded more than 60 seconds before the last call.
AllOlderThanMinute ==
    \A i \in 1..Len(history) : history[i].recorded < last.now - MINUTE

\* C13: after increments b1..bn all recorded within 60s of the last one the
\* counter reports bytes_per_min = b1 + ... + bn and count_per_min = n; and a
\* truncate anchored more than 60s after every recorded time leaves the queue
\* empty with bytes_per_min = 0 (stated for runs whose clock never ran backward).
C13_SumAndCountThenEmpty ==
    /\ (last.op = "increment" /\ clock_forward /\ AllWithinMinuteOfLast) =>
           /\ ~panicked
           /\ get_bytes_per_min = SumBytes(history)
           /\ get_count_per_min = Len(history)
    /\ (last.op = "truncate" /\ AllOlderThanMinute) =>
           entries = <<>> /\ get_bytes_per_min = 0

\* The same holds of every run whose increments cannot overflow the total.
SumAndCountThenEmptyWithoutOverflow ==
    SumBytes(history) <= U64_MAX => C13_SumAndCountThenEmpty

\* The part of C13 that involves no sum holds of every run.
CountThenEmpty ==
    /\ (last.op = "increment" /\ ~panicked /\ clock_forward /\ AllWithinMinuteOfLast) =>
           get_count_per_min = Len(history)
    /\ (last.op = "truncate" /\ AllOlderThanMinute) =>
           entries = <<>> /\ get_bytes_per_min = 0

\* The step is an increment(0): it records a new entry of zero bytes.
ZeroIncrementStep ==
    /\ Len(history') = Len(history) + 1
    /\ history'[Len(history')].bytes = 0

\* C14: increment(0) completes, appends one entry at the back, changes
\* bytes_per_min by nothing but the bytes of the entries its pass evicts and
\* raises the count by one over the entries kept; and a zero-byte entry stays
\* in the queue through every call whose now - 60s is not after its recorded time.
C14_ZeroIncrementCounts ==
    [][/\ ZeroIncrementStep =>
            /\ ~panicked'
            /\ entries' # <<>>
            /\ entries'[Len(entries')] = history'[Len(history')]
            /\ Len(entries') = Len(entries) - Len(last'.removed) + 1
            /\ bytes_per_min' = (bytes_per_min - SumBytes(last'.removed)) % U64_MOD
            /\ \A i \in 1..Len(last'.removed) : last'.removed[i] = entries[i]
       /\ \A i \in 1..Len(entries) :
            (entries[i].bytes = 0 /\ entries[i].recorded >= last'.now - MINUTE)
                => \E j \in 1..Len(entries') : entries'[j] = entries[i]]_vars

\* An increment(0) joined a queue whose total is not zero, and a later call
\* made up to 60s after it found the zero-byte entry still counted.
C14_Witness ==
    /\ ~panicked /\ bytes_per_min > 0 /\ Len(entries) >= 2
    /\ entries[Len(entries)].bytes = 0
    /\ last.op = "read" /\ last.now = entries[Len(entries)].recorded + MINUTE

----------------------------------------------------------------------------
\* The six predicates by name, each applied to a kind, and the predicate named
\* after each variant.
PredicateNames == {"is_too_long", "is_too_short", "has_caps_chars",
                   "has_consecutive_separators", "has_unterminated_separators",
                   "has_invalid_chars"}

Apply(p, k) ==
    CASE p = "is_too_long" -> is_too_long(k)
      [] p = "is_too_short" -> is_too_short(k)
      [] p = "has_caps_chars" -> has_caps_chars(k)
      [] p = "has_consecutive_separators" -> has_consecutive_separators(k)
      [] p = "has_unterminated_separators" -> has_unterminated_separators(k)
      [] p = "has_invalid_chars" -> has_invalid_chars(k)

NamedAfter(k) ==
    CASE k = "TooLong" -> "is_too_long"
      [] k = "TooShort" -> "is_too_short"
      [] k = "HasCapsChars" -> "has_caps_chars"
      [] k = "HasConsecutiveSeparators" -> "has_consecutive_separators"
      [] k = "HasUnterminatedSeparators" -> "has_unterminated_separators"
      [] k = "HasInvalidChars" -> "has_invalid_chars"

\* C15: for every ParseErrorKind exactly one of the six predicates returns
\* true, the one named after the variant; so a predicate called on an error
\* returns true exactly when it is the one named after the error's kind.
C15_OnePredicatePerKind ==
    /\ {p \in PredicateNames : Apply(p, err.kind)} = {NamedAfter(err.kind)}
    /\ err_call \in PredicateNames => err_ret = (err_call = NamedAfter(err.kind))

\* has_invalid_chars was called on a HasInvalidChars error and returned true.
C15_Witness ==
    err.kind = "HasInvalidChars" /\ err_call = "has_invalid_chars" /\ err_ret = TRUE

----------------------------------------------------------------------------
\* A step in which truncate ran to its end, the queue it was given (for an
\* increment, the queue with the new entry pushed) and the total it was given.
PassStep == last'.op \in {"increment", "truncate"} /\ ~panicked'
PassQueue ==
    IF last'.op = "increment" THEN Append(entries, history'[Len(history')]) ELSE entries

\* The pass removed the longest prefix of expired entries and left the rest as
\* it was, in value and order.
RemovedLongestExpiredPrefix ==
    /\ PassQueue = last'.removed \o entries'
    /\ \A i \in 1..Len(last'.removed) : last'.removed[i].recorded < last'.now - MINUTE
    /\ entries' # <<>> => ~(entries'[1].recorded < last'.now - MINUTE)

\* C16: truncate(now) removes exactly the longest prefix of the queue whose
\* entries all have recorded < now - 60s, decreases bytes_per_min by exactly the
\* sum of the bytes removed and leaves the remaining entries unchanged.
C16_TruncateRemovesExpiredPrefix ==
    [][PassStep =>
           /\ RemovedLongestExpiredPrefix
           /\ bytes_per_min' = last'.pass_in - SumBytes(last'.removed)]_vars

\* The prefix part of C16 holds of every pass, and the total changes as C16
\* says modulo 2^U64_BITS.
TruncateRemovesExpiredPrefixModulo ==
    [][PassStep =>
           /\ RemovedLongestExpiredPrefix
           /\ bytes_per_min' = (last'.pass_in - SumBytes(last'.removed)) % U64_MOD]_vars

\* With overflow checks on, C16 holds of every pass.
TruncateRemovesExpiredPrefixWithChecks ==
    [][(PassStep /\ overflow_checks) =>
           /\ RemovedLongestExpiredPrefix
           /\ bytes_per_min' = last'.pass_in - SumBytes(last'.removed)]_vars

----------------------------------------------------------------------------
\* The increments recorded at or after T - 60s, and the bytes they sum to.
FreshIds(T) == {i \in 1..Len(history) : history[i].recorded >= T - MINUTE}
HeldIds == {entries[j].id : j \in 1..Len(entries)}

RECURSIVE FreshBytesUpTo(_, _)
FreshBytesUpTo(n, T) ==
    IF n = 0 THEN 0
    ELSE FreshBytesUpTo(n - 1, T) + (IF n \in FreshIds(T) THEN history[n].bytes ELSE 0)
FreshBytes(T) == FreshBytesUpTo(Len(history), T)

\* The entry at the back of the queue is the one the last increment recorded.
BackIsLastIncrement ==
    /\ entries # <<>>
    /\ entries[Len(entries)] = history[Len(history)]
    /\ entries[Len(entries)].recorded = last.now

\* C17: after increment(bytes) at now the back entry is {bytes, recorded = now};
\* when the clock never moved backward the entries kept are exactly the
\* increments with recorded >= now - 60s, so count_per_min and bytes_per_min
\* are exact for the trailing window.
C17_IncrementLeavesExactWindow ==
    last.op = "increment" =>
        /\ ~panicked
        /\ BackIsLastIncrement
        /\ clock_forward =>
               /\ HeldIds = FreshIds(last.now)
               /\ get_count_per_min = Cardinality(FreshIds(last.now))
               /\ get_bytes_per_min = FreshBytes(last.now)

\* Everything C17 says of the queue and the count holds when increment returns.
IncrementLeavesExactQueue ==
    (last.op = "increment" /\ ~panicked) =>
        /\ BackIsLastIncrement
        /\ clock_forward =>
               /\ HeldIds = FreshIds(last.now)
               /\ get_count_per_min = Cardinality(FreshIds(last.now))
               /\ get_bytes_per_min = FreshBytes(last.now) % U64_MOD

----------------------------------------------------------------------------
\* C18: the entry an increment appends is not evicted by that increment's own
\* pass, so right after any increment count_per_min >= 1 and bytes_per_min is at
\* least the bytes just recorded, whatever the clock did before.
C18_IncrementKeepsItsEntry ==
    last.op = "increment" =>
        /\ Held(Len(history))
        /\ get_count_per_min >= 1
        /\ get_bytes_per_min >= history[Len(history)].bytes

\* The queue part of C18 holds after every increment, and so does the total
\* part when the bytes recorded so far cannot overflow.
IncrementKeepsItsEntryInQueue ==
    last.op = "increment" =>
        /\ Held(Len(history))
        /\ get_count_per_min >= 1
        /\ SumBytes(history) <= U64_MAX =>
               get_bytes_per_min >= history[Len(history)].bytes

----------------------------------------------------------------------------
====
